---- MODULE Spec2Model ----
(***************************************************************************)
(* The encrypted account vault of the wallet extension                     *)
(* (apps/extension/src/core/hooks/useAccounts.ts).                         *)
(*                                                                         *)
(* Every handler is an async function.  Between two awaits its code runs   *)
(* atomically, so a handler is a chain of steps: the call (which reads     *)
(* the values its hook closed over and computes everything up to the       *)
(* first write), then one step per awaited write or notification.  The     *)
(* last step of a handler completes the call.                              *)
(*                                                                         *)
(* A JavaScript value that may be undefined is a sequence of length 0      *)
(* (undefined) or 1 (the value).                                           *)
(***************************************************************************)
EXTENDS Integers, Sequences, FiniteSets, TLC

\* ------------------------------------------------------------------ bounds
NumAddresses == 2
NumPasswords == 2
NumSalts == 2
NumSlots == 2
MaxInitialAccounts == 2
MaxLatestVersion == 2

Addresses == 1..NumAddresses
\* a password is a sequence of characters; <<>> is the empty string
Passwords == {<<c>> : c \in 1..NumPasswords}
EmptyPassword == <<>>
Salts == 1..NumSalts
Nonces == {1}
Slots == 1..NumSlots
AccountNames == {"name1"}
Mnemonics == {"words"}

\* ------------------------------------------------------------- JS values
undefined == <<>>

Defined(v) == <<v>>

IsDefined(o) == o # undefined

ValueOf(o) == o[1]

\* core/constants.latestVersion in this release
CurrentLatestVersion == 1

\* ---------------------------------------------------------------- Account
\* The keys of an account are fixed by its address.
PublicKeyOf(address) == 100 + address

PrivateKeyOf(address) == 200 + address

Account(address, name, mnemonic) ==
    [address |-> address,
     publicKey |-> PublicKeyOf(address),
     privateKey |-> PrivateKeyOf(address),
     name |-> name,
     mnemonic |-> mnemonic]

AccountValues ==
    {Account(a, n, m) :
        a \in Addresses,
        n \in {undefined} \cup {Defined(x) : x \in AccountNames},
        m \in {undefined} \cup {Defined(x) : x \in Mnemonics}}

\* Accounts: a JS object keyed by address, in insertion order; here the
\* sequence of its values (every entry is stored under its own address).
Has(accounts, address) == \E i \in 1..Len(accounts) : accounts[i].address = address

IsAccounts(accounts) ==
    \A i, j \in 1..Len(accounts) : accounts[i].address = accounts[j].address => i = j

AccountsOfLen(n) == {m \in [1..n -> AccountValues] : IsAccounts(m)}

AccountsValues == UNION {AccountsOfLen(n) : n \in 0..NumAddresses}

\* The accounts the callers pass in: what keysFromAptosAccount gives, the
\* address and the keys.  Names come from renameAccount and mnemonics from the
\* vaults of the releases that stored them.
NewAccounts == {a \in AccountValues : a.name = undefined /\ a.mnemonic = undefined}

InitialAccountsValues ==
    {m \in AccountsValues :
        /\ Len(m) <= MaxInitialAccounts
        /\ \A i \in 1..Len(m) : m[i] \in NewAccounts}

\* What a vault of the releases before version 1 holds: accounts stored with
\* their mnemonic, named or not.
LegacyAccountsValues ==
    {m \in AccountsValues :
        Len(m) > 0 /\ \A i \in 1..Len(m) : IsDefined(m[i].mnemonic)}

\* accounts[address]
Lookup(accounts, address) ==
    IF Has(accounts, address)
    THEN Defined(accounts[CHOOSE i \in 1..Len(accounts) : accounts[i].address = address])
    ELSE undefined

\* { ...accounts, [account.address]: account }: an existing key keeps its place
Spread(accounts, account) ==
    IF Has(accounts, account.address)
    THEN [i \in 1..Len(accounts) |->
            IF accounts[i].address = account.address THEN account ELSE accounts[i]]
    ELSE Append(accounts, account)

\* delete accounts[address]
Delete(accounts, address) == SelectSeq(accounts, LAMBDA e : e.address # address)

\* accounts[Object.keys(accounts)[0]]
FirstAvailable(accounts) ==
    IF Len(accounts) > 0 THEN Defined(accounts[1]) ELSE undefined

\* firstAvailableAccount?.address and firstAvailableAccount?.publicKey
AddressOf(optAccount) ==
    IF IsDefined(optAccount) THEN Defined(ValueOf(optAccount).address) ELSE undefined

PublicKeyOfOpt(optAccount) ==
    IF IsDefined(optAccount) THEN Defined(ValueOf(optAccount).publicKey) ELSE undefined

\* ------------------------------------------------------------------- JSON
\* JSON.stringify writes only the properties that are defined; JSON.parse
\* gives back an object on which the others are missing (undefined).
StringifyAccount(a) ==
    LET base == [address |-> a.address, publicKey |-> a.publicKey,
                 privateKey |-> a.privateKey]
        n == IF IsDefined(a.name) THEN [name |-> ValueOf(a.name)] ELSE <<>>
        m == IF IsDefined(a.mnemonic) THEN [mnemonic |-> ValueOf(a.mnemonic)] ELSE <<>>
    IN  base @@ n @@ m

ParseAccount(j) ==
    [address |-> j.address,
     publicKey |-> j.publicKey,
     privateKey |-> j.privateKey,
     name |-> IF "name" \in DOMAIN j THEN Defined(j.name) ELSE undefined,
     mnemonic |-> IF "mnemonic" \in DOMAIN j THEN Defined(j.mnemonic) ELSE undefined]

JSONstringify(accounts) == [i \in 1..Len(accounts) |-> StringifyAccount(accounts[i])]

JSONparse(text) == [i \in 1..Len(text) |-> ParseAccount(text[i])]

\* ------------------------------------------------------------------ crypto
bs58encode(bytes) == [bs58 |-> bytes]

bs58decode(text) == text.bs58

\* PBKDF2: a function of the password and the salt, taken as injective
deriveEncryptionKey(password, salt) == [password |-> password, salt |-> salt]

\* tweetnacl secretbox: opens only under the key and nonce that sealed it
secretbox(message, nonce, key) == [box |-> message, nonce |-> nonce, key |-> key]

\* secretbox.open gives null (here undefined) when authentication fails
secretbox_open(ciphertext, nonce, key) ==
    IF ciphertext.key = key /\ ciphertext.nonce = nonce
    THEN Defined(ciphertext.box)
    ELSE undefined

\* The { ciphertext, nonce } record every handler builds from a mapping.
Seal(accounts, nonce, key) ==
    [ciphertext |-> bs58encode(secretbox(JSONstringify(accounts), nonce, key)),
     nonce |-> bs58encode(nonce)]

\* secretbox.open(bs58.decode(ciphertext), bs58.decode(nonce), key)
Open(encryptedAccounts, key) ==
    secretbox_open(bs58decode(encryptedAccounts.ciphertext),
                   bs58decode(encryptedAccounts.nonce), key)

\* ------------------------------------------------------------------- state
VARIABLES
    persistent,       \* the persistent store of useAppState
    session,          \* the session store of useAppState
    calls,            \* the handler calls, one per slot
    currentPassword,  \* history: the password of the last initAccounts or
                      \* successful changePassword
    maxInFlight,      \* how many calls the host lets overlap
    latestVersion     \* the constant latestVersion of the build that runs

vars == <<persistent, session, calls, currentPassword, maxInFlight, latestVersion>>

\* updatePersistentState / updateSessionState merge the given keys
Merge(state, patch) ==
    [k \in DOMAIN state |-> IF k \in DOMAIN patch THEN patch[k] ELSE state[k]]

EmptyPersistent ==
    [activeAccountAddress |-> undefined,
     activeAccountPublicKey |-> undefined,
     encryptedAccounts |-> undefined,
     encryptedStateVersion |-> undefined,
     salt |-> undefined]

EmptySession == [accounts |-> undefined, encryptionKey |-> undefined]

IdleCall ==
    [op |-> "idle", pc |-> "idle", arg |-> <<>>, cl |-> <<>>, loc |-> <<>>,
     pend |-> {}, outcome |-> "none", notes |-> <<>>]

\* The vault's states (spec 4.4)
Uninitialized == persistent.encryptedAccounts = undefined

Unlocked == IsDefined(session.accounts) /\ IsDefined(session.encryptionKey)

Locked == ~Uninitialized /\ ~Unlocked

\* What the hooks close over when they render: useAppState's values
Closure == [persistent |-> persistent, session |-> session]

InFlight(s) == calls[s].pc \notin {"idle", "done"}

\* A call starts in the lowest free slot, once the results of the calls that
\* ended are taken, when the host allows another one.
CanStart(s) ==
    /\ calls[s].pc = "idle"
    /\ \A t \in Slots : calls[t].pc # "done" /\ (t < s => calls[t].pc # "idle")
    /\ Cardinality({t \in Slots : InFlight(t)}) < maxInFlight

Begin(s, op, arg, pc, loc, pend) ==
    calls' = [calls EXCEPT ![s] =
        [op |-> op, pc |-> pc, arg |-> arg, cl |-> Closure, loc |-> loc,
         pend |-> pend, outcome |-> "none", notes |-> <<>>]]

Throw(s, op, arg, error) ==
    calls' = [calls EXCEPT ![s] =
        [op |-> op, pc |-> "done", arg |-> arg, cl |-> Closure, loc |-> <<>>,
         pend |-> {}, outcome |-> error, notes |-> <<>>]]

\* A handler that returns without awaiting anything
ReturnAtOnce(s, op, arg) == Throw(s, op, arg, "ok")

Goto(s, pc) == calls' = [calls EXCEPT ![s].pc = pc]

Finish(call) == [call EXCEPT !.pc = "done", !.outcome = "ok", !.loc = <<>>, !.pend = {}]

Return(s) == calls' = [calls EXCEPT ![s] = Finish(@)]

\* One of the promises of a Promise.all settles; the last one ends the call.
Settled(s, w) ==
    IF calls[s].pend = {w}
    THEN Return(s)
    ELSE calls' = [calls EXCEPT ![s].pend = @ \ {w}]

\* triggerAccountChange(publicAccount): the notifier's payloads, per call
Notify(call, publicAccount) == [call EXCEPT !.notes = Append(@, publicAccount)]

PublicAccount(address, publicKey) ==
    Defined([address |-> address, publicKey |-> publicKey])

\* The caller's await ends: the slot is free again.
Settle(s) ==
    /\ calls[s].pc = "done"
    /\ calls' = [calls EXCEPT ![s] = IdleCall]
    /\ UNCHANGED <<persistent, session, currentPassword, maxInFlight, latestVersion>>

\* ------------------------------------------------------------ initAccounts
\* the last key of initialAccounts taken for the first
initAccounts_lastAvailable(initialAccounts, newEncryptedAccounts, newSalt) ==
    LET last == IF Len(initialAccounts) > 0
                THEN Defined(initialAccounts[Len(initialAccounts)])
                ELSE undefined
    IN  [activeAccountAddress |-> AddressOf(last),
         activeAccountPublicKey |-> PublicKeyOfOpt(last),
         encryptedAccounts |-> Defined(newEncryptedAccounts),
         encryptedStateVersion |-> Defined(latestVersion),
         salt |-> Defined(bs58encode(newSalt))]

initAccounts_persistentPatch(initialAccounts, newEncryptedAccounts, newSalt) ==
    [activeAccountAddress |-> AddressOf(FirstAvailable(initialAccounts)),
     activeAccountPublicKey |-> PublicKeyOfOpt(FirstAvailable(initialAccounts)),
     encryptedAccounts |-> Defined(newEncryptedAccounts),
     encryptedStateVersion |-> Defined(latestVersion),
     salt |-> Defined(bs58encode(newSalt))]

initAccounts_sessionPatch(initialAccounts, newEncryptionKey) ==
    [accounts |-> Defined(initialAccounts),
     encryptionKey |-> Defined(bs58encode(newEncryptionKey))]

\* The caller's side of the contract (spec 4.4): initAccounts is offered only
\* while no vault is stored.
initAccounts_offered == Uninitialized

\* the length test off by one
initAccounts_acceptsEmpty(password) == Len(password) < 0

\* if (password.length < 1)
initAccounts_invalid(password) == Len(password) < 1

initAccounts_call(s) ==
    /\ CanStart(s)
    /\ initAccounts_offered
    /\ \E password \in Passwords \cup {EmptyPassword},
          initialAccounts \in InitialAccountsValues :
         LET arg == [password |-> password, initialAccounts |-> initialAccounts] IN
         IF initAccounts_invalid(password)
         THEN Throw(s, "initAccounts", arg, "Password must be at least 1 character")
         ELSE \E newSalt \in Salts, nonce \in Nonces :
                LET newEncryptionKey == deriveEncryptionKey(password, newSalt)
                    newEncryptedAccounts == Seal(initialAccounts, nonce, newEncryptionKey)
                IN  Begin(s, "initAccounts", arg, "write",
                          [persistentPatch |->
                              initAccounts_persistentPatch(
                                  initialAccounts, newEncryptedAccounts, newSalt),
                           sessionPatch |->
                              initAccounts_sessionPatch(initialAccounts, newEncryptionKey)],
                          {"persistent", "session"})
    /\ UNCHANGED <<persistent, session, currentPassword, maxInFlight, latestVersion>>

\* await Promise.all([updatePersistentState(..), updateSessionState(..)])
initAccounts_write(s) ==
    /\ calls[s].op = "initAccounts" /\ calls[s].pc = "write"
    /\ \E w \in calls[s].pend :
         /\ IF w = "persistent"
            THEN /\ persistent' = Merge(persistent, calls[s].loc.persistentPatch)
                 /\ currentPassword' = Defined(calls[s].arg.password)
                 /\ UNCHANGED session
            ELSE /\ session' = Merge(session, calls[s].loc.sessionPatch)
                 /\ UNCHANGED <<persistent, currentPassword>>
         /\ Settled(s, w)
    /\ UNCHANGED <<maxInFlight, latestVersion>>


\* ----------------------------------------------------------- clearAccounts
clearAccounts_persistentPatch ==
    [activeAccountAddress |-> undefined,
     activeAccountPublicKey |-> undefined,
     encryptedAccounts |-> undefined,
     salt |-> undefined]

clearAccounts_sessionPatch == [accounts |-> undefined, encryptionKey |-> undefined]

\* the session erased first
clearAccounts_sessionFirst == "session"

clearAccounts_first == "persistent"

clearAccounts_second == "session"

clearAccounts_call(s) ==
    /\ CanStart(s)
    /\ ~Uninitialized
    /\ Begin(s, "clearAccounts", <<>>, clearAccounts_first, <<>>, {})
    /\ UNCHANGED <<persistent, session, currentPassword, maxInFlight, latestVersion>>

clearAccounts_write(s) ==
    /\ calls[s].op = "clearAccounts" /\ InFlight(s)
    /\ IF calls[s].pc = "persistent"
       THEN /\ persistent' = Merge(persistent, clearAccounts_persistentPatch)
            /\ currentPassword' = undefined
            /\ UNCHANGED session
       ELSE /\ session' = Merge(session, clearAccounts_sessionPatch)
            /\ UNCHANGED <<persistent, currentPassword>>
    /\ IF calls[s].pc = clearAccounts_first
       THEN Goto(s, clearAccounts_second)
       ELSE Return(s)
    /\ UNCHANGED <<maxInFlight, latestVersion>>

\* ---------------------------------------------------- migrateEncryptedState
StripMnemonic(accounts) ==
    [i \in 1..Len(accounts) |-> [accounts[i] EXCEPT !.mnemonic = undefined]]

\* the migration to version 1 left out
migrateEncryptedState_keepsMnemonic(accounts, encryptedStateVersion) == accounts

\* the mapping migrateEncryptedState returns for a stored version
migrateEncryptedState_accounts(accounts, encryptedStateVersion) ==
    IF encryptedStateVersion = Defined(latestVersion)
    THEN accounts
    ELSE IF IsDefined(encryptedStateVersion) /\ ValueOf(encryptedStateVersion) < 1
         THEN StripMnemonic(accounts)
         ELSE accounts

migrateEncryptedState_persistentPatch(newAccounts, newNonce, encryptionKey) ==
    [encryptedAccounts |-> Defined(Seal(newAccounts, newNonce, encryptionKey)),
     encryptedStateVersion |-> Defined(1)]

\* ---------------------------------------------------------- unlockAccounts
unlockAccounts_sessionPatch(newAccounts, newEncryptionKey) ==
    [accounts |-> Defined(newAccounts),
     encryptionKey |-> Defined(bs58encode(newEncryptionKey))]

\* Buffer.from(null) throws a TypeError: unlockAccounts does not test what
\* secretbox.open returned.  bs58.decode(undefined), of a salt that is not
\* stored, throws one too.
unlockAccounts_failure == "TypeError"

unlockAccounts_call(s) ==
    /\ CanStart(s)
    /\ ~Uninitialized
    /\ \E password \in Passwords :
         LET arg == [password |-> password]
             newEncryptionKey ==
                 deriveEncryptionKey(password, bs58decode(ValueOf(persistent.salt)))
             plaintext == Open(ValueOf(persistent.encryptedAccounts), newEncryptionKey)
             version == persistent.encryptedStateVersion
         IN  IF persistent.salt = undefined \/ plaintext = undefined
             THEN Throw(s, "unlockAccounts", arg, unlockAccounts_failure)
             ELSE LET newAccounts ==
                          migrateEncryptedState_accounts(
                              JSONparse(ValueOf(plaintext)), version)
                      sessionPatch ==
                          unlockAccounts_sessionPatch(newAccounts, newEncryptionKey)
                  IN  IF version = Defined(latestVersion)
                      THEN Begin(s, "unlockAccounts", arg, "session",
                                 [sessionPatch |-> sessionPatch], {})
                      ELSE \E newNonce \in Nonces :
                             Begin(s, "unlockAccounts", arg, "migrate",
                                   [persistentPatch |->
                                       migrateEncryptedState_persistentPatch(
                                           newAccounts, newNonce, newEncryptionKey),
                                    sessionPatch |-> sessionPatch], {})
    /\ UNCHANGED <<persistent, session, currentPassword, maxInFlight, latestVersion>>

\* await updatePersistentState(..) inside migrateEncryptedState
unlockAccounts_migrate(s) ==
    /\ calls[s].op = "unlockAccounts" /\ calls[s].pc = "migrate"
    /\ persistent' = Merge(persistent, calls[s].loc.persistentPatch)
    /\ Goto(s, "session")
    /\ UNCHANGED <<session, currentPassword, maxInFlight, latestVersion>>

unlockAccounts_session(s) ==
    /\ calls[s].op = "unlockAccounts" /\ calls[s].pc = "session"
    /\ session' = Merge(session, calls[s].loc.sessionPatch)
    /\ Return(s)
    /\ UNCHANGED <<persistent, currentPassword, maxInFlight, latestVersion>>

\* ------------------------------------------------------------ lockAccounts
\* the session key left behind
lockAccounts_keepsKey == [accounts |-> undefined]

lockAccounts_sessionPatch == [accounts |-> undefined, encryptionKey |-> undefined]

lockAccounts_call(s) ==
    /\ CanStart(s)
    /\ ~Uninitialized
    /\ Begin(s, "lockAccounts", <<>>, "session", <<>>, {})
    /\ UNCHANGED <<persistent, session, currentPassword, maxInFlight, latestVersion>>

lockAccounts_write(s) ==
    /\ calls[s].op = "lockAccounts" /\ calls[s].pc = "session"
    /\ session' = Merge(session, lockAccounts_sessionPatch)
    /\ Return(s)
    /\ UNCHANGED <<persistent, currentPassword, maxInFlight, latestVersion>>

\* ---------------------------------------------------------- changePassword
\* Without the test of plaintext, Buffer.from(null) throws instead.
changePassword_unchecked(plaintext) ==
    IF plaintext = undefined THEN "TypeError" ELSE "none"

\* if (!plaintext) throw new Error('Incorrect current password')
changePassword_thrown(plaintext) ==
    IF plaintext = undefined THEN "Incorrect current password" ELSE "none"

\* the new salt not persisted
changePassword_keepsSalt(newEncryptedAccounts, newSalt) ==
    [encryptedAccounts |-> Defined(newEncryptedAccounts)]

changePassword_persistentPatch(newEncryptedAccounts, newSalt) ==
    [encryptedAccounts |-> Defined(newEncryptedAccounts),
     salt |-> Defined(bs58encode(newSalt))]

changePassword_sessionPatch(newEncryptionKey) ==
    [encryptionKey |-> Defined(bs58encode(newEncryptionKey))]

changePassword_call(s) ==
    /\ CanStart(s)
    /\ ~Uninitialized
    /\ \E oldPassword \in Passwords, newPassword \in Passwords :
         LET arg == [oldPassword |-> oldPassword, newPassword |-> newPassword]
             encryptionKey ==
                 deriveEncryptionKey(oldPassword, bs58decode(ValueOf(persistent.salt)))
             plaintext == Open(ValueOf(persistent.encryptedAccounts), encryptionKey)
         IN  IF persistent.salt = undefined
             THEN Throw(s, "changePassword", arg, "TypeError")
             ELSE IF changePassword_thrown(plaintext) # "none"
             THEN Throw(s, "changePassword", arg, changePassword_thrown(plaintext))
             ELSE \E newSalt \in Salts, newNonce \in Nonces :
                    LET newAccounts == JSONparse(ValueOf(plaintext))
                        newEncryptionKey == deriveEncryptionKey(newPassword, newSalt)
                        newEncryptedAccounts ==
                            Seal(newAccounts, newNonce, newEncryptionKey)
                    IN  Begin(s, "changePassword", arg, "write",
                              [persistentPatch |->
                                  changePassword_persistentPatch(
                                      newEncryptedAccounts, newSalt),
                               sessionPatch |->
                                  changePassword_sessionPatch(newEncryptionKey)],
                              {"persistent", "session"})
    /\ UNCHANGED <<persistent, session, currentPassword, maxInFlight, latestVersion>>

\* await Promise.all([updatePersistentState(..), updateSessionState(..)])
changePassword_write(s) ==
    /\ calls[s].op = "changePassword" /\ calls[s].pc = "write"
    /\ \E w \in calls[s].pend :
         /\ IF w = "persistent"
            THEN /\ persistent' = Merge(persistent, calls[s].loc.persistentPatch)
                 /\ currentPassword' = Defined(calls[s].arg.newPassword)
                 /\ UNCHANGED session
            ELSE /\ session' = Merge(session, calls[s].loc.sessionPatch)
                 /\ UNCHANGED <<persistent, currentPassword>>
         /\ Settled(s, w)
    /\ UNCHANGED <<maxInFlight, latestVersion>>

\* --------------------------------------------------------- encryptAccounts
\* seals under the session key the hook closed over
encryptAccounts(newAccounts, encryptionKey, nonce) ==
    Seal(newAccounts, nonce, bs58decode(encryptionKey))

\* -------------------------------------------------------------- addAccount
\* { [account.address]: account }, the spread of accounts forgotten
addAccount_withoutSpread(accounts, account) == <<account>>

addAccount_newAccounts(accounts, account) == Spread(accounts, account)

addAccount_persistentPatch(account, newEncryptedAccounts) ==
    [activeAccountAddress |-> Defined(account.address),
     activeAccountPublicKey |-> Defined(account.publicKey),
     encryptedAccounts |-> Defined(newEncryptedAccounts)]

addAccount_call(s) ==
    /\ CanStart(s)
    /\ Unlocked
    /\ \E account \in NewAccounts, nonce \in Nonces :
         LET newAccounts == addAccount_newAccounts(ValueOf(session.accounts), account)
             newEncryptedAccounts ==
                 encryptAccounts(newAccounts, ValueOf(session.encryptionKey), nonce)
         IN  Begin(s, "addAccount", [account |-> account], "session",
                   [sessionPatch |-> [accounts |-> Defined(newAccounts)],
                    persistentPatch |->
                        addAccount_persistentPatch(account, newEncryptedAccounts),
                    publicAccount |-> PublicAccount(account.address, account.publicKey)],
                   {})
    /\ UNCHANGED <<persistent, session, currentPassword, maxInFlight, latestVersion>>

addAccount_session(s) ==
    /\ calls[s].op = "addAccount" /\ calls[s].pc = "session"
    /\ session' = Merge(session, calls[s].loc.sessionPatch)
    /\ Goto(s, "persistent")
    /\ UNCHANGED <<persistent, currentPassword, maxInFlight, latestVersion>>

addAccount_persistent(s) ==
    /\ calls[s].op = "addAccount" /\ calls[s].pc = "persistent"
    /\ persistent' = Merge(persistent, calls[s].loc.persistentPatch)
    /\ Goto(s, "trigger")
    /\ UNCHANGED <<session, currentPassword, maxInFlight, latestVersion>>

addAccount_trigger(s) ==
    /\ calls[s].op = "addAccount" /\ calls[s].pc = "trigger"
    /\ calls' = [calls EXCEPT ![s] = Finish(Notify(@, calls[s].loc.publicAccount))]
    /\ UNCHANGED <<persistent, session, currentPassword, maxInFlight, latestVersion>>

\* ----------------------------------------------------- lookUpAndAddAccount
\* keysFromAptosAccount(aptosAccount): the address and the keys the key
\* material derives
keysFromAptosAccount(aptosAccount) ==
    [address |-> aptosAccount,
     publicKey |-> PublicKeyOf(aptosAccount),
     privateKey |-> PrivateKeyOf(aptosAccount)]

\* What lookupOriginalAddress answers: the account under the original address
\* of a rotated key, the not-found error of the address table, or another error.
LookupAnswers ==
    {[kind |-> "found", address |-> Defined(a)] : a \in Addresses}
        \cup {[kind |-> k, address |-> undefined] :
                k \in {"table_item_not_found", "other"}}

\* the account lookupOriginalAddress resolves: the candidate's keys (and
\* mnemonic) under the original address
lookupOriginalAddress_account(aptosAccount, mnemonic, answer) ==
    [keysFromAptosAccount(aptosAccount) EXCEPT !.address = ValueOf(answer.address)]
        @@ [name |-> undefined, mnemonic |-> mnemonic]

\* mnemonic ? { mnemonic, ...keysFromAptosAccount(aptosAccount) }
\*          : keysFromAptosAccount(aptosAccount)
lookUpAndAddAccount_derived(aptosAccount, mnemonic) ==
    keysFromAptosAccount(aptosAccount) @@ [name |-> undefined, mnemonic |-> mnemonic]

\* the catch recovering from every error
lookUpAndAddAccount_recoversAll(answer) == TRUE

\* err instanceof ApiError && err.errorCode === 'table_item_not_found'
lookUpAndAddAccount_recovers(answer) == answer.kind = "table_item_not_found"

lookUpAndAddAccount_call(s) ==
    /\ CanStart(s)
    /\ Unlocked
    /\ \E aptosAccount \in Addresses,
          mnemonic \in {undefined} \cup {Defined(m) : m \in Mnemonics} :
         Begin(s, "lookUpAndAddAccount",
               [aptosAccount |-> aptosAccount, mnemonic |-> mnemonic,
                answer |-> undefined],
               "lookup", <<>>, {})
    /\ UNCHANGED <<persistent, session, currentPassword, maxInFlight, latestVersion>>

\* await lookupOriginalAddress(..) settles; addAccount then runs up to its
\* first await, on the values the hook closed over when the call was made
lookUpAndAddAccount_lookup(s) ==
    /\ calls[s].op = "lookUpAndAddAccount" /\ calls[s].pc = "lookup"
    /\ \E answer \in LookupAnswers, nonce \in Nonces :
         LET c == calls[s]
             arg == [c.arg EXCEPT !.answer = Defined(answer)]
             account ==
                 IF answer.kind = "found"
                 THEN lookupOriginalAddress_account(
                          c.arg.aptosAccount, c.arg.mnemonic, answer)
                 ELSE lookUpAndAddAccount_derived(c.arg.aptosAccount, c.arg.mnemonic)
             newAccounts ==
                 addAccount_newAccounts(ValueOf(c.cl.session.accounts), account)
             newEncryptedAccounts ==
                 encryptAccounts(
                     newAccounts, ValueOf(c.cl.session.encryptionKey), nonce)
         IN  IF answer.kind = "found" \/ lookUpAndAddAccount_recovers(answer)
             THEN calls' = [calls EXCEPT ![s] =
                     [c EXCEPT
                        !.arg = arg,
                        !.pc = "session",
                        !.loc =
                           [account |-> account,
                            sessionPatch |-> [accounts |-> Defined(newAccounts)],
                            persistentPatch |->
                                addAccount_persistentPatch(
                                    account, newEncryptedAccounts),
                            publicAccount |->
                                PublicAccount(account.address, account.publicKey)]]]
             ELSE calls' = [calls EXCEPT ![s] =
                     [c EXCEPT !.arg = arg, !.pc = "done", !.outcome = "ApiError"]]
    /\ UNCHANGED <<persistent, session, currentPassword, maxInFlight, latestVersion>>

lookUpAndAddAccount_session(s) ==
    /\ calls[s].op = "lookUpAndAddAccount" /\ calls[s].pc = "session"
    /\ session' = Merge(session, calls[s].loc.sessionPatch)
    /\ Goto(s, "persistent")
    /\ UNCHANGED <<persistent, currentPassword, maxInFlight, latestVersion>>

lookUpAndAddAccount_persistent(s) ==
    /\ calls[s].op = "lookUpAndAddAccount" /\ calls[s].pc = "persistent"
    /\ persistent' = Merge(persistent, calls[s].loc.persistentPatch)
    /\ Goto(s, "trigger")
    /\ UNCHANGED <<session, currentPassword, maxInFlight, latestVersion>>

lookUpAndAddAccount_trigger(s) ==
    /\ calls[s].op = "lookUpAndAddAccount" /\ calls[s].pc = "trigger"
    /\ calls' = [calls EXCEPT ![s] = Finish(Notify(@, calls[s].loc.publicAccount))]
    /\ UNCHANGED <<persistent, session, currentPassword, maxInFlight, latestVersion>>

\* ----------------------------------------------------- updateActiveAccount
\* the account replaced where it stands, without the delete
updateActiveAccount_inPlace(accounts, newAccount) == Spread(accounts, newAccount)

\* delete newAccounts[address]; newAccounts[address] = newAccount
updateActiveAccount_newAccounts(accounts, newAccount) ==
    Append(Delete(accounts, newAccount.address), newAccount)

updateActiveAccount_persistentPatch(newAccount, newEncryptedAccounts) ==
    [activeAccountAddress |-> Defined(newAccount.address),
     activeAccountPublicKey |-> Defined(newAccount.publicKey),
     encryptedAccounts |-> Defined(newEncryptedAccounts)]

updateActiveAccount_call(s) ==
    /\ CanStart(s)
    /\ Unlocked
    /\ \E newAccount \in NewAccounts, nonce \in Nonces :
         LET newAccounts ==
                 updateActiveAccount_newAccounts(ValueOf(session.accounts), newAccount)
             newEncryptedAccounts ==
                 encryptAccounts(newAccounts, ValueOf(session.encryptionKey), nonce)
         IN  Begin(s, "updateActiveAccount", [newAccount |-> newAccount], "persistent",
                   [sessionPatch |-> [accounts |-> Defined(newAccounts)],
                    persistentPatch |->
                        updateActiveAccount_persistentPatch(
                            newAccount, newEncryptedAccounts),
                    publicAccount |->
                        PublicAccount(newAccount.address, newAccount.publicKey)],
                   {"trigger", "session"})
    /\ UNCHANGED <<persistent, session, currentPassword, maxInFlight, latestVersion>>

updateActiveAccount_persistent(s) ==
    /\ calls[s].op = "updateActiveAccount" /\ calls[s].pc = "persistent"
    /\ persistent' = Merge(persistent, calls[s].loc.persistentPatch)
    /\ Goto(s, "all")
    /\ UNCHANGED <<session, currentPassword, maxInFlight, latestVersion>>

\* await Promise.all([triggerAccountChange(..), updateSessionState(..)])
updateActiveAccount_all(s) ==
    /\ calls[s].op = "updateActiveAccount" /\ calls[s].pc = "all"
    /\ \E w \in calls[s].pend :
         LET c == [calls[s] EXCEPT !.pend = @ \ {w}]
             d == IF w = "trigger" THEN Notify(c, calls[s].loc.publicAccount) ELSE c
         IN  /\ IF w = "session"
                THEN session' = Merge(session, calls[s].loc.sessionPatch)
                ELSE UNCHANGED session
             /\ calls' = [calls EXCEPT ![s] = IF c.pend = {} THEN Finish(d) ELSE d]
    /\ UNCHANGED <<persistent, currentPassword, maxInFlight, latestVersion>>

\* ----------------------------------------------------------- removeAccount
\* the delete left out
removeAccount_keepsAll(accounts, address) == accounts

removeAccount_newAccounts(accounts, address) == Delete(accounts, address)

\* Object.keys(newAccounts)[0] and the account under it
removeAccount_firstAvailableAccount(newAccounts) == FirstAvailable(newAccounts)

\* the public key of the new active account not persisted
removeAccount_keepsPublicKey(firstAvailableAccount, newEncryptedAccounts) ==
    [activeAccountAddress |-> AddressOf(firstAvailableAccount),
     encryptedAccounts |-> Defined(newEncryptedAccounts)]

removeAccount_activePatch(firstAvailableAccount, newEncryptedAccounts) ==
    [activeAccountAddress |-> AddressOf(firstAvailableAccount),
     activeAccountPublicKey |-> PublicKeyOfOpt(firstAvailableAccount),
     encryptedAccounts |-> Defined(newEncryptedAccounts)]

removeAccount_publicAccount(firstAvailableAccount) ==
    IF IsDefined(firstAvailableAccount)
    THEN PublicAccount(ValueOf(firstAvailableAccount).address,
                       ValueOf(firstAvailableAccount).publicKey)
    ELSE undefined

removeAccount_call(s) ==
    /\ CanStart(s)
    /\ Unlocked
    /\ \E address \in Addresses, nonce \in Nonces :
         LET newAccounts == removeAccount_newAccounts(ValueOf(session.accounts), address)
             newEncryptedAccounts ==
                 encryptAccounts(newAccounts, ValueOf(session.encryptionKey), nonce)
             firstAvailableAccount == removeAccount_firstAvailableAccount(newAccounts)
             isActive == Defined(address) = persistent.activeAccountAddress
         IN  Begin(s, "removeAccount", [address |-> address], "persistent",
                   [sessionPatch |-> [accounts |-> Defined(newAccounts)],
                    persistentPatch |->
                        IF isActive
                        THEN removeAccount_activePatch(
                                 firstAvailableAccount, newEncryptedAccounts)
                        ELSE [encryptedAccounts |-> Defined(newEncryptedAccounts)],
                    isActive |-> isActive,
                    publicAccount |-> removeAccount_publicAccount(firstAvailableAccount)],
                   {})
    /\ UNCHANGED <<persistent, session, currentPassword, maxInFlight, latestVersion>>

removeAccount_persistent(s) ==
    /\ calls[s].op = "removeAccount" /\ calls[s].pc = "persistent"
    /\ persistent' = Merge(persistent, calls[s].loc.persistentPatch)
    /\ Goto(s, IF calls[s].loc.isActive THEN "trigger" ELSE "session")
    /\ UNCHANGED <<session, currentPassword, maxInFlight, latestVersion>>

removeAccount_trigger(s) ==
    /\ calls[s].op = "removeAccount" /\ calls[s].pc = "trigger"
    /\ calls' = [calls EXCEPT ![s] =
                    [Notify(@, calls[s].loc.publicAccount) EXCEPT !.pc = "session"]]
    /\ UNCHANGED <<persistent, session, currentPassword, maxInFlight, latestVersion>>

removeAccount_session(s) ==
    /\ calls[s].op = "removeAccount" /\ calls[s].pc = "session"
    /\ session' = Merge(session, calls[s].loc.sessionPatch)
    /\ Return(s)
    /\ UNCHANGED <<persistent, currentPassword, maxInFlight, latestVersion>>

\* ----------------------------------------------------------- renameAccount
\* newAccounts[address] = { ...newAccounts[address], name: newName }
renameAccount_newAccounts(accounts, address, newName) ==
    [i \in 1..Len(accounts) |->
        IF accounts[i].address = address
        THEN [accounts[i] EXCEPT !.name = Defined(newName)]
        ELSE accounts[i]]

renameAccount_call(s) ==
    /\ CanStart(s)
    /\ Unlocked
    /\ \E address \in Addresses, newName \in AccountNames, nonce \in Nonces :
         LET arg == [address |-> address, newName |-> newName]
             accounts == ValueOf(session.accounts)
             newAccounts == renameAccount_newAccounts(accounts, address, newName)
             newEncryptedAccounts ==
                 encryptAccounts(newAccounts, ValueOf(session.encryptionKey), nonce)
         IN  IF Has(accounts, address)
             THEN Begin(s, "renameAccount", arg, "write",
                        [sessionPatch |-> [accounts |-> Defined(newAccounts)],
                         persistentPatch |->
                             [encryptedAccounts |-> Defined(newEncryptedAccounts)]],
                        {"persistent", "session"})
             ELSE ReturnAtOnce(s, "renameAccount", arg)
    /\ UNCHANGED <<persistent, session, currentPassword, maxInFlight, latestVersion>>

\* await Promise.all([updatePersistentState(..), updateSessionState(..)])
renameAccount_write(s) ==
    /\ calls[s].op = "renameAccount" /\ calls[s].pc = "write"
    /\ \E w \in calls[s].pend :
         /\ IF w = "persistent"
            THEN /\ persistent' = Merge(persistent, calls[s].loc.persistentPatch)
                 /\ UNCHANGED session
            ELSE /\ session' = Merge(session, calls[s].loc.sessionPatch)
                 /\ UNCHANGED persistent
         /\ Settled(s, w)
    /\ UNCHANGED <<currentPassword, maxInFlight, latestVersion>>

\* ----------------------------------------------------------- switchAccount
\* accounts[address]?.publicKey
switchAccount_publicKey(accounts, address) == PublicKeyOfOpt(Lookup(accounts, address))

switchAccount_publicAccount(address, publicKey) ==
    IF IsDefined(publicKey) THEN PublicAccount(address, ValueOf(publicKey)) ELSE undefined

switchAccount_persistentPatch(address, publicAccount) ==
    [activeAccountAddress |-> Defined(address),
     activeAccountPublicKey |->
        IF IsDefined(publicAccount)
        THEN Defined(ValueOf(publicAccount).publicKey)
        ELSE undefined]

switchAccount_call(s) ==
    /\ CanStart(s)
    /\ Unlocked
    /\ \E address \in Addresses :
         LET publicKey == switchAccount_publicKey(ValueOf(session.accounts), address)
             publicAccount == switchAccount_publicAccount(address, publicKey)
         IN  Begin(s, "switchAccount", [address |-> address], "persistent",
                   [persistentPatch |->
                        switchAccount_persistentPatch(address, publicAccount),
                    publicAccount |-> publicAccount],
                   {})
    /\ UNCHANGED <<persistent, session, currentPassword, maxInFlight, latestVersion>>

switchAccount_persistent(s) ==
    /\ calls[s].op = "switchAccount" /\ calls[s].pc = "persistent"
    /\ persistent' = Merge(persistent, calls[s].loc.persistentPatch)
    /\ Goto(s, "trigger")
    /\ UNCHANGED <<session, currentPassword, maxInFlight, latestVersion>>

switchAccount_trigger(s) ==
    /\ calls[s].op = "switchAccount" /\ calls[s].pc = "trigger"
    /\ calls' = [calls EXCEPT ![s] = Finish(Notify(@, calls[s].loc.publicAccount))]
    /\ UNCHANGED <<persistent, session, currentPassword, maxInFlight, latestVersion>>

\* ------------------------------------------------------------------ claims
Done(c, op) == c.pc = "done" /\ c.op = op

\* the call began on an unlocked vault / on a locked one
WasUnlocked(c) ==
    IsDefined(c.cl.session.accounts) /\ IsDefined(c.cl.session.encryptionKey)

WasLocked(c) ==
    IsDefined(c.cl.persistent.encryptedAccounts) /\ c.cl.session = EmptySession

Entries(accounts) == {accounts[i] : i \in 1..Len(accounts)}

\* what a store's vault opens to under a password and that store's salt
OpenedBy(store, password) ==
    Open(ValueOf(store.encryptedAccounts),
         deriveEncryptionKey(password, bs58decode(ValueOf(store.salt))))

\* the persisted vault opens under the current password and the persisted salt
VaultOpens ==
    /\ IsDefined(persistent.encryptedAccounts)
    /\ IsDefined(persistent.salt)
    /\ IsDefined(currentPassword)
    /\ IsDefined(OpenedBy(persistent, ValueOf(currentPassword)))

OpenedAccounts ==
    JSONparse(ValueOf(OpenedBy(persistent, ValueOf(currentPassword))))

\* the entries a mutation leaves, told from the entries it found
Expected(c) ==
    LET before == Entries(ValueOf(c.cl.session.accounts)) IN
    CASE c.op = "addAccount" ->
           {e \in before : e.address # c.arg.account.address} \cup {c.arg.account}
      [] c.op = "updateActiveAccount" ->
           {e \in before : e.address # c.arg.newAccount.address} \cup {c.arg.newAccount}
      [] c.op = "removeAccount" -> {e \in before : e.address # c.arg.address}
      [] c.op = "renameAccount" ->
           {IF e.address = c.arg.address
            THEN [e EXCEPT !.name = Defined(c.arg.newName)]
            ELSE e : e \in before}
      [] OTHER -> before

Mutations ==
    {"addAccount", "updateActiveAccount", "removeAccount", "renameAccount",
     "changePassword"}

\* C1: with serialized calls on an unlocked vault, when addAccount,
\* updateActiveAccount, removeAccount, renameAccount or changePassword has
\* completed, the persisted vault opens under the key derived from the current
\* password and the persisted salt, what it opens to is the session mapping,
\* and that mapping holds exactly the entries the mutation should leave.
C1_MutationsAreResealed ==
    \A s \in Slots :
        LET c == calls[s] IN
        (c.pc = "done" /\ c.outcome = "ok" /\ c.op \in Mutations /\ WasUnlocked(c)) =>
            /\ VaultOpens
            /\ IsDefined(session.accounts)
            /\ OpenedAccounts = ValueOf(session.accounts)
            /\ IsAccounts(ValueOf(session.accounts))
            /\ Entries(ValueOf(session.accounts)) = Expected(c)

C1_Witness ==
    \E s \in Slots :
        LET c == calls[s] IN
        /\ Done(c, "changePassword") /\ c.outcome = "ok" /\ WasUnlocked(c)
        /\ c.arg.oldPassword # c.arg.newPassword
        /\ persistent.salt # c.cl.persistent.salt
        /\ Len(ValueOf(session.accounts)) = 2
        /\ \E i \in 1..2 : IsDefined(ValueOf(session.accounts)[i].name)

\* C2: unlockAccounts on a locked vault with a password other than the current
\* one ends in an explicit DecryptionFailed error and leaves the session and
\* the persistent store as they were.
C2_WrongPasswordIsDecryptionFailed ==
    \A s \in Slots :
        LET c == calls[s] IN
        (/\ Done(c, "unlockAccounts")
         /\ WasLocked(c)
         /\ Defined(c.arg.password) # currentPassword) =>
            /\ c.outcome = "DecryptionFailed"
            /\ persistent = c.cl.persistent
            /\ session = c.cl.session

\* C3: an unlockAccounts that has completed succeeded exactly when its password
\* is the one of the latest initAccounts or successful changePassword, and then
\* the session mapping is what the persisted vault holds; a successful
\* changePassword leaves in the vault, under the new password, the mapping that
\* was in it under the old one.
C3_LatestPasswordUnlocks ==
    \A s \in Slots :
        LET c == calls[s] IN
        /\ Done(c, "unlockAccounts") =>
              /\ (c.outcome = "ok") <=> (Defined(c.arg.password) = currentPassword)
              /\ c.outcome = "ok" =>
                    /\ VaultOpens
                    /\ session.accounts = Defined(OpenedAccounts)
        /\ (Done(c, "changePassword") /\ c.outcome = "ok") =>
              /\ currentPassword = Defined(c.arg.newPassword)
              /\ VaultOpens
              /\ OpenedAccounts =
                    JSONparse(ValueOf(OpenedBy(c.cl.persistent, c.arg.oldPassword)))

C3_Witness ==
    \E s \in Slots :
        LET c == calls[s] IN
        /\ Done(c, "unlockAccounts") /\ c.outcome = "ok"
        /\ c.cl.session.accounts = undefined
        /\ c.cl.session.encryptionKey =
              Defined(bs58encode(deriveEncryptionKey(
                  c.arg.password, bs58decode(ValueOf(persistent.salt)))))
        /\ Len(ValueOf(session.accounts)) > 0

\* C4: changePassword with an old password that does not open the persisted
\* vault fails with the incorrect-password error, and both stores are after
\* the call what they were before it.
C4_IncorrectPasswordWritesNothing ==
    \A s \in Slots :
        LET c == calls[s] IN
        (/\ Done(c, "changePassword")
         /\ OpenedBy(c.cl.persistent, c.arg.oldPassword) = undefined) =>
            /\ c.outcome = "Incorrect current password"
            /\ persistent = c.cl.persistent
            /\ session = c.cl.session

C4_Witness ==
    \E s \in Slots :
        LET c == calls[s] IN
        /\ Done(c, "changePassword") /\ WasUnlocked(c)
        /\ OpenedBy(c.cl.persistent, c.arg.oldPassword) = undefined
        /\ c.outcome = "Incorrect current password"

C6_ActiveAddressIsAKey ==
    (Unlocked /\ IsDefined(persistent.activeAccountAddress)) =>
        Has(ValueOf(session.accounts), ValueOf(persistent.activeAccountAddress))

\* C7: unlockAccounts with the right password on a vault stored at a version
\* below 1 leaves a session mapping without any mnemonic whose other fields are
\* those of the vault, persists that mapping sealed under the same key with
\* the salt unchanged and version 1, and writes the session only after that
\* persistent write.
C7_UnlockMigratesLegacyVault ==
    \A s \in Slots :
        LET c == calls[s]
            v == c.cl.persistent.encryptedStateVersion
            legacy == c.op = "unlockAccounts" /\ IsDefined(v) /\ ValueOf(v) < 1
        IN  /\ (legacy /\ c.pc = "done" /\ c.outcome = "ok") =>
                  LET before ==
                          JSONparse(ValueOf(OpenedBy(c.cl.persistent, c.arg.password)))
                      after == ValueOf(session.accounts)
                      key == deriveEncryptionKey(
                                 c.arg.password, bs58decode(ValueOf(persistent.salt)))
                  IN  /\ Len(after) = Len(before)
                      /\ \A i \in 1..Len(after) :
                            /\ after[i].mnemonic = undefined
                            /\ after[i] = [before[i] EXCEPT !.mnemonic = undefined]
                      /\ persistent.salt = c.cl.persistent.salt
                      /\ persistent.encryptedStateVersion = Defined(1)
                      /\ Open(ValueOf(persistent.encryptedAccounts), key) =
                            Defined(JSONstringify(after))
                      /\ session.encryptionKey = Defined(bs58encode(key))
            /\ (legacy /\ c.pc # "done" /\ session # c.cl.session) =>
                  persistent.encryptedStateVersion = Defined(1)
            /\ (legacy /\ c.pc = "session") =>
                  /\ persistent.encryptedStateVersion = Defined(1)
                  /\ session = c.cl.session

C7_Witness ==
    \E s \in Slots :
        LET c == calls[s]
            before == JSONparse(ValueOf(OpenedBy(c.cl.persistent, c.arg.password)))
        IN  /\ Done(c, "unlockAccounts") /\ c.outcome = "ok"
            /\ c.cl.persistent.encryptedStateVersion = Defined(0)
            /\ Len(before) = 2
            /\ \E i \in 1..Len(before) :
                 IsDefined(before[i].mnemonic) /\ IsDefined(before[i].name)

\* C8: initAccounts(password, M) with a non-empty password, begun with no vault
\* stored, has when it returns persisted the latest version, the address and
\* public key of the first entry of M as active (unset for an empty M) and a
\* vault that opens under derive(password, persisted salt) to M, and has set
\* the session accounts to M and the session key to that key.
C8_InitAccountsEstablishesVault ==
    \A s \in Slots :
        LET c == calls[s] IN
        (/\ Done(c, "initAccounts")
         /\ Len(c.arg.password) >= 1
         /\ c.cl.persistent.encryptedAccounts = undefined) =>
            LET M == c.arg.initialAccounts IN
            /\ c.outcome = "ok"
            /\ persistent.encryptedStateVersion = Defined(latestVersion)
            /\ IF Len(M) = 0
               THEN /\ persistent.activeAccountAddress = undefined
                    /\ persistent.activeAccountPublicKey = undefined
               ELSE /\ persistent.activeAccountAddress = Defined(M[1].address)
                    /\ persistent.activeAccountPublicKey = Defined(M[1].publicKey)
            /\ IsDefined(persistent.encryptedAccounts) /\ IsDefined(persistent.salt)
            /\ IsDefined(OpenedBy(persistent, c.arg.password))
            /\ JSONparse(ValueOf(OpenedBy(persistent, c.arg.password))) = M
            /\ session.accounts = Defined(M)
            /\ session.encryptionKey =
                  Defined(bs58encode(deriveEncryptionKey(
                      c.arg.password, bs58decode(ValueOf(persistent.salt)))))
            /\ Unlocked

C8_Witness ==
    \E s \in Slots :
        LET c == calls[s] IN
        /\ Done(c, "initAccounts") /\ c.outcome = "ok"
        /\ c.cl.persistent.encryptedAccounts = undefined
        /\ Len(c.arg.initialAccounts) = 2

\* C9: initAccounts with an empty password fails with the password error and
\* changes no key of either store: the vault stays uninitialized.
C9_EmptyPasswordRejected ==
    \A s \in Slots :
        LET c == calls[s] IN
        (Done(c, "initAccounts") /\ Len(c.arg.password) < 1) =>
            /\ c.outcome = "Password must be at least 1 character"
            /\ persistent = c.cl.persistent
            /\ session = c.cl.session
            /\ Uninitialized

C9_Witness ==
    \E s \in Slots :
        LET c == calls[s] IN
        /\ Done(c, "initAccounts") /\ c.arg.password = EmptyPassword
        /\ c.arg.initialAccounts # <<>>
        /\ c.outcome = "Password must be at least 1 character"

\* C10: when clearAccounts has completed, the persisted vault, salt and active
\* account keys and the session accounts and key are unset; and while the call
\* runs, as long as the persisted vault is still there the session is what it
\* was when the call began.
C10_ClearErasesPersistentFirst ==
    \A s \in Slots :
        LET c == calls[s] IN
        /\ Done(c, "clearAccounts") =>
              /\ c.outcome = "ok"
              /\ persistent.encryptedAccounts = undefined
              /\ persistent.salt = undefined
              /\ persistent.activeAccountAddress = undefined
              /\ persistent.activeAccountPublicKey = undefined
              /\ session = EmptySession
              /\ Uninitialized
        /\ (c.op = "clearAccounts" /\ IsDefined(persistent.encryptedAccounts)) =>
              session = c.cl.session

C10_Witness ==
    \E s \in Slots :
        LET c == calls[s] IN
        /\ c.op = "clearAccounts" /\ c.pc = "session"
        /\ WasUnlocked(c)
        /\ Uninitialized
        /\ session = c.cl.session

\* C11: when lockAccounts begun on an unlocked vault has completed, the session
\* accounts and the session encryptionKey are unset, every persisted key is what
\* it was when the call began, and the persisted vault opens under the current
\* password to the mapping the session held, so that what unlockAccounts would
\* put into the session is that same mapping.
C11_LockKeepsVault ==
    \A s \in Slots :
        LET c == calls[s] IN
        (Done(c, "lockAccounts") /\ WasUnlocked(c)) =>
            /\ c.outcome = "ok"
            /\ session.accounts = undefined
            /\ session.encryptionKey = undefined
            /\ persistent = c.cl.persistent
            /\ VaultOpens
            /\ migrateEncryptedState_accounts(
                   OpenedAccounts, persistent.encryptedStateVersion) =
                  ValueOf(c.cl.session.accounts)

C11_Witness ==
    \E s \in Slots :
        LET c == calls[s] IN
        /\ Done(c, "lockAccounts") /\ WasUnlocked(c)
        /\ Len(ValueOf(c.cl.session.accounts)) = 2
        /\ \E i \in 1..2 : IsDefined(ValueOf(c.cl.session.accounts)[i].name)
        /\ IsDefined(persistent.activeAccountAddress)
        /\ session = EmptySession

\* the notifier's payload and the persisted pointer, field by field
PayloadFields(publicAccount) ==
    IF IsDefined(publicAccount)
    THEN [address |-> Defined(ValueOf(publicAccount).address),
          publicKey |-> Defined(ValueOf(publicAccount).publicKey)]
    ELSE [address |-> undefined, publicKey |-> undefined]

ActivePointer ==
    [address |-> persistent.activeAccountAddress,
     publicKey |-> persistent.activeAccountPublicKey]

RemovesActive(c) ==
    c.op = "removeAccount" /\ Defined(c.arg.address) = c.cl.persistent.activeAccountAddress

\* C12: addAccount, removeAccount of the active address and switchAccount have
\* when they complete notified exactly once; whenever one of them has notified,
\* the new pointer is already persisted and the payload is the {address,
\* publicKey} persisted as active, or none when the pointer is unset; and
\* renameAccount, lockAccounts, unlockAccounts and removeAccount of another
\* address never notify.
C12_NotifierFollowsActiveAccount ==
    \A s \in Slots :
        LET c == calls[s] IN
        /\ (c.op \in {"addAccount", "switchAccount"} \/ RemovesActive(c)) =>
              /\ (c.pc = "done" /\ c.outcome = "ok") => Len(c.notes) = 1
              /\ Len(c.notes) <= 1
              /\ c.notes # <<>> => PayloadFields(c.notes[1]) = ActivePointer
        /\ (\/ c.op \in {"renameAccount", "lockAccounts", "unlockAccounts"}
            \/ (c.op = "removeAccount" /\ ~RemovesActive(c))) =>
              c.notes = <<>>

\* the keys of the persistent store other than the active-account pointer
VaultKeys(store) ==
    [encryptedAccounts |-> store.encryptedAccounts,
     encryptedStateVersion |-> store.encryptedStateVersion,
     salt |-> store.salt]

\* C14: when switchAccount(address) has completed, for an address of the mapping
\* or not, the persisted encryptedAccounts, salt and encryptedStateVersion and
\* the session are what they were when the call began, the persisted active
\* address is address, and the notifier was given once the public account
\* {address, publicKey} that is persisted as active.
C14_SwitchChangesOnlyThePointer ==
    \A s \in Slots :
        LET c == calls[s] IN
        Done(c, "switchAccount") =>
            /\ c.outcome = "ok"
            /\ VaultKeys(persistent) = VaultKeys(c.cl.persistent)
            /\ session = c.cl.session
            /\ persistent.activeAccountAddress = Defined(c.arg.address)
            /\ Len(c.notes) = 1
            /\ IsDefined(c.notes[1])
            /\ ValueOf(c.notes[1]).address = c.arg.address
            /\ PayloadFields(c.notes[1]) = ActivePointer

\* C13: when lookUpAndAddAccount has completed: if the lookup resolved an
\* address, the mapping holds under that address the candidate's keys and the
\* entries of other addresses are as before; if the lookup failed with the
\* not-found condition, exactly one account was added or replaced, the one under
\* the address the key material derives; in both cases the vault opens to the
\* session mapping and the notifier was given that account; if the lookup
\* failed otherwise, the error reached the caller, both stores are what they
\* were and the notifier was not invoked.
C13_LookupAddsOrPropagates ==
    \A s \in Slots :
        LET c == calls[s] IN
        Done(c, "lookUpAndAddAccount") =>
            LET answer == ValueOf(c.arg.answer)
                before == Entries(ValueOf(c.cl.session.accounts))
                address == IF answer.kind = "found"
                           THEN ValueOf(answer.address)
                           ELSE c.arg.aptosAccount
                added == [address |-> address,
                          publicKey |-> PublicKeyOf(c.arg.aptosAccount),
                          privateKey |-> PrivateKeyOf(c.arg.aptosAccount),
                          name |-> undefined,
                          mnemonic |-> c.arg.mnemonic]
            IN  IF answer.kind \in {"found", "table_item_not_found"}
                THEN /\ c.outcome = "ok"
                     /\ IsAccounts(ValueOf(session.accounts))
                     /\ Entries(ValueOf(session.accounts)) =
                           {e \in before : e.address # address} \cup {added}
                     /\ VaultOpens
                     /\ OpenedAccounts = ValueOf(session.accounts)
                     /\ c.notes = <<Defined([address |-> address,
                                             publicKey |-> added.publicKey])>>
                ELSE /\ c.outcome = "ApiError"
                     /\ persistent = c.cl.persistent
                     /\ session = c.cl.session
                     /\ c.notes = <<>>

C13_Witness ==
    \E s \in Slots :
        LET c == calls[s] IN
        /\ Done(c, "lookUpAndAddAccount")
        /\ ValueOf(c.arg.answer).kind = "table_item_not_found"
        /\ Len(ValueOf(c.cl.session.accounts)) = 1
        /\ ~Has(ValueOf(c.cl.session.accounts), c.arg.aptosAccount)
        /\ Len(ValueOf(session.accounts)) = 2
        /\ ValueOf(session.accounts)[2].address = c.arg.aptosAccount
        /\ ValueOf(session.accounts)[1].publicKey #
              PublicKeyOf(ValueOf(session.accounts)[1].address)

\* the entries of a mapping under the other addresses, in their order
Others(accounts, address) == SelectSeq(accounts, LAMBDA e : e.address # address)

C17_UnlockBringsVersionToLatest ==
    \A s \in Slots :
        LET c == calls[s]
            stored == c.cl.persistent.encryptedStateVersion
        IN  c.op = "unlockAccounts" =>
              /\ c.pc = "migrate" =>
                    IsDefined(stored) /\ ValueOf(stored) < latestVersion
              /\ (c.pc = "done" /\ c.outcome = "ok") =>
                    /\ IsDefined(persistent.encryptedStateVersion)
                    /\ IsDefined(stored) =>
                          ValueOf(persistent.encryptedStateVersion) >= ValueOf(stored)
                    /\ persistent.encryptedStateVersion = Defined(latestVersion)

\* C18: whenever no call is in flight, the session holds an encryptionKey
\* exactly when it holds the accounts mapping; a changePassword begun on a
\* locked vault has, when it completes, left no key in the session.
C18_SessionKeyIffAccounts ==
    (\A s \in Slots : ~InFlight(s)) =>
        (IsDefined(session.encryptionKey) <=> IsDefined(session.accounts))

RegistryMutations ==
    {"addAccount", "updateActiveAccount", "removeAccount", "renameAccount"}

\* two registry mutations that began on the same mapping have both completed
BothCompleted(c, d) ==
    /\ c.pc = "done" /\ c.outcome = "ok" /\ c.op \in RegistryMutations
    /\ d.pc = "done" /\ d.outcome = "ok" /\ d.op \in RegistryMutations
    /\ c.cl.session.accounts = d.cl.session.accounts

\* C15: when two registry mutations that overlapped, having begun on the same
\* unlocked mapping, have both completed without error, the session mapping is
\* the mapping one of the two computed from what it began on, and so is the
\* mapping the persisted vault opens to: the change of the other call is in
\* neither (the witness is the interleaving in which two addAccount of distinct
\* addresses end with only the second account in both stores).
C15_LastWriterWins ==
    \A s, t \in Slots :
        LET c == calls[s]
            d == calls[t]
        IN  (s # t /\ BothCompleted(c, d)) =>
              /\ IsDefined(session.accounts)
              /\ Entries(ValueOf(session.accounts)) \in {Expected(c), Expected(d)}
              /\ VaultOpens
              /\ Entries(OpenedAccounts) \in {Expected(c), Expected(d)}

C15_Witness ==
    \E s, t \in Slots :
        LET c == calls[s]
            d == calls[t]
        IN  /\ s # t /\ BothCompleted(c, d)
            /\ c.op = "addAccount" /\ d.op = "addAccount"
            /\ c.arg.account.address # d.arg.account.address
            /\ ~Has(ValueOf(c.cl.session.accounts), c.arg.account.address)
            /\ ~Has(ValueOf(c.cl.session.accounts), d.arg.account.address)
            /\ Has(ValueOf(session.accounts), d.arg.account.address)
            /\ ~Has(ValueOf(session.accounts), c.arg.account.address)
            /\ VaultOpens
            /\ OpenedAccounts = ValueOf(session.accounts)
            /\ persistent.activeAccountAddress = Defined(d.arg.account.address)

\* C19: once lockAccounts or clearAccounts has completed, as long as no
\* unlockAccounts or initAccounts has been called, the session holds neither
\* the accounts mapping nor the encryptionKey, also after a call that began
\* before the lock has made its remaining session write.
C19_SessionStaysEmptyAfterLock ==
    (/\ \E s \in Slots :
            /\ calls[s].op \in {"lockAccounts", "clearAccounts"}
            /\ calls[s].pc = "done" /\ calls[s].outcome = "ok"
     /\ \A s \in Slots : calls[s].op \notin {"unlockAccounts", "initAccounts"}) =>
        /\ session.accounts = undefined
        /\ session.encryptionKey = undefined

\* C20: when changePassword and registry mutations, one overlapping the other,
\* have all completed and a vault is persisted, the persisted vault opens under
\* the key derived from the current password and the persisted salt: it has
\* not ended sealed under a key that this salt does not derive.
C20_VaultOpensUnderCurrentPassword ==
    (/\ IsDefined(persistent.encryptedAccounts)
     /\ \A s \in Slots :
            /\ ~InFlight(s)
            /\ calls[s].op \in RegistryMutations \cup {"changePassword", "idle"}) =>
        VaultOpens

\* ------------------------------------------------------------------- specs
\* A vault sealed by a release that stored version 0 and kept the mnemonics.
LegacyVault(accounts, password, salt, nonce) ==
    [activeAccountAddress |-> AddressOf(FirstAvailable(accounts)),
     activeAccountPublicKey |-> PublicKeyOfOpt(FirstAvailable(accounts)),
     encryptedAccounts |->
        Defined(Seal(accounts, nonce, deriveEncryptionKey(password, salt))),
     encryptedStateVersion |-> Defined(0),
     salt |-> Defined(bs58encode(salt))]

\* The extension starts with nothing stored, or locked on a legacy vault.
InitStores ==
    /\ session = EmptySession
    /\ calls = [s \in Slots |-> IdleCall]
    /\ \/ /\ persistent = EmptyPersistent
          /\ currentPassword = undefined
       \/ \E accounts \in LegacyAccountsValues, password \in Passwords,
             salt \in Salts, nonce \in Nonces :
            /\ persistent = LegacyVault(accounts, password, salt, nonce)
            /\ currentPassword = Defined(password)

Init == InitStores /\ maxInFlight = 1 /\ latestVersion = CurrentLatestVersion

Next ==
    \/ \E s \in Slots : initAccounts_call(s)
    \/ \E s \in Slots : initAccounts_write(s)
    \/ \E s \in Slots : clearAccounts_call(s)
    \/ \E s \in Slots : clearAccounts_write(s)
    \/ \E s \in Slots : unlockAccounts_call(s)
    \/ \E s \in Slots : unlockAccounts_migrate(s)
    \/ \E s \in Slots : unlockAccounts_session(s)
    \/ \E s \in Slots : lockAccounts_call(s)
    \/ \E s \in Slots : lockAccounts_write(s)
    \/ \E s \in Slots : changePassword_call(s)
    \/ \E s \in Slots : changePassword_write(s)
    \/ \E s \in Slots : addAccount_call(s)
    \/ \E s \in Slots : addAccount_session(s)
    \/ \E s \in Slots : addAccount_persistent(s)
    \/ \E s \in Slots : addAccount_trigger(s)
    \/ \E s \in Slots : updateActiveAccount_call(s)
    \/ \E s \in Slots : updateActiveAccount_persistent(s)
    \/ \E s \in Slots : updateActiveAccount_all(s)
    \/ \E s \in Slots : removeAccount_call(s)
    \/ \E s \in Slots : removeAccount_persistent(s)
    \/ \E s \in Slots : removeAccount_trigger(s)
    \/ \E s \in Slots : removeAccount_session(s)
    \/ \E s \in Slots : renameAccount_call(s)
    \/ \E s \in Slots : renameAccount_write(s)
    \/ \E s \in Slots : switchAccount_call(s)
    \/ \E s \in Slots : switchAccount_persistent(s)
    \/ \E s \in Slots : switchAccount_trigger(s)
    \/ \E s \in Slots : Settle(s)

\* Serialized calls: the host starts a call only when none is in flight.
Spec == Init /\ [][Next]_vars

\* The stores as initAccounts(password, accounts) leaves them.
InitializedStores(accounts, password, salt, nonce) ==
    LET key == deriveEncryptionKey(password, salt) IN
    /\ persistent =
          Merge(EmptyPersistent,
                initAccounts_persistentPatch(accounts, Seal(accounts, nonce, key), salt))
    /\ session = Merge(EmptySession, initAccounts_sessionPatch(accounts, key))
    /\ currentPassword = Defined(password)

\* The import flow: on a vault this release created and left unlocked,
\* accounts are imported through the address lookup and removed, and the vault
\* is locked and unlocked.
InitLookup ==
    /\ latestVersion = CurrentLatestVersion
    /\ \E accounts \in InitialAccountsValues, nonce \in Nonces :
          InitializedStores(accounts, <<1>>, 1, nonce)
    /\ calls = [s \in Slots |-> IdleCall]
    /\ maxInFlight = 1

NextLookup ==
    \/ \E s \in Slots : unlockAccounts_call(s)
    \/ \E s \in Slots : unlockAccounts_session(s)
    \/ \E s \in Slots : lockAccounts_call(s)
    \/ \E s \in Slots : lockAccounts_write(s)
    \/ \E s \in Slots : lookUpAndAddAccount_call(s)
    \/ \E s \in Slots : lookUpAndAddAccount_lookup(s)
    \/ \E s \in Slots : lookUpAndAddAccount_session(s)
    \/ \E s \in Slots : lookUpAndAddAccount_persistent(s)
    \/ \E s \in Slots : lookUpAndAddAccount_trigger(s)
    \/ \E s \in Slots : removeAccount_call(s)
    \/ \E s \in Slots : removeAccount_persistent(s)
    \/ \E s \in Slots : removeAccount_trigger(s)
    \/ \E s \in Slots : removeAccount_session(s)
    \/ \E s \in Slots : Settle(s)

SpecLookup == InitLookup /\ [][NextLookup]_vars
\* A vault stored by the release whose latestVersion was version; the releases
\* before version 1 kept the mnemonics.
StoredVault(accounts, password, salt, nonce, version) ==
    [LegacyVault(accounts, password, salt, nonce) EXCEPT
        !.encryptedStateVersion = Defined(version)]

StoredAccountsValues(version) ==
    IF version < 1
    THEN LegacyAccountsValues
    ELSE {m \in InitialAccountsValues : Len(m) > 0}

\* Releases to come: the build's latestVersion is any version from the current
\* one on, and the extension starts locked on a vault that this build or an
\* earlier one stored.
InitVersions ==
    /\ latestVersion \in CurrentLatestVersion..MaxLatestVersion
    /\ maxInFlight = 1
    /\ session = EmptySession
    /\ calls = [s \in Slots |-> IdleCall]
    /\ \E version \in 0..latestVersion, password \in Passwords,
          salt \in Salts, nonce \in Nonces :
         \E accounts \in StoredAccountsValues(version) :
            /\ persistent = StoredVault(accounts, password, salt, nonce, version)
            /\ currentPassword = Defined(password)

NextVersions ==
    \/ \E s \in Slots : unlockAccounts_call(s)
    \/ \E s \in Slots : unlockAccounts_migrate(s)
    \/ \E s \in Slots : unlockAccounts_session(s)
    \/ \E s \in Slots : lockAccounts_call(s)
    \/ \E s \in Slots : lockAccounts_write(s)
    \/ \E s \in Slots : Settle(s)

SpecVersions == InitVersions /\ [][NextVersions]_vars

\* Overlapping calls: on a vault this release created and left unlocked, the
\* host starts a second handler while the first is still awaiting a write.
\* A slot serves one call, so a behaviour is two calls that overlap.
InitConcurrent ==
    /\ latestVersion = CurrentLatestVersion
    /\ \E accounts \in InitialAccountsValues, nonce \in Nonces :
          InitializedStores(accounts, <<1>>, 1, nonce)
    /\ calls = [s \in Slots |-> IdleCall]
    /\ maxInFlight = 2

NextConcurrent ==
    \/ \E s \in Slots : initAccounts_call(s)
    \/ \E s \in Slots : initAccounts_write(s)
    \/ \E s \in Slots : clearAccounts_call(s)
    \/ \E s \in Slots : clearAccounts_write(s)
    \/ \E s \in Slots : unlockAccounts_call(s)
    \/ \E s \in Slots : unlockAccounts_session(s)
    \/ \E s \in Slots : lockAccounts_call(s)
    \/ \E s \in Slots : lockAccounts_write(s)
    \/ \E s \in Slots : changePassword_call(s)
    \/ \E s \in Slots : changePassword_write(s)
    \/ \E s \in Slots : addAccount_call(s)
    \/ \E s \in Slots : addAccount_session(s)
    \/ \E s \in Slots : addAccount_persistent(s)
    \/ \E s \in Slots : addAccount_trigger(s)
    \/ \E s \in Slots : updateActiveAccount_call(s)
    \/ \E s \in Slots : updateActiveAccount_persistent(s)
    \/ \E s \in Slots : updateActiveAccount_all(s)
    \/ \E s \in Slots : removeAccount_call(s)
    \/ \E s \in Slots : removeAccount_persistent(s)
    \/ \E s \in Slots : removeAccount_trigger(s)
    \/ \E s \in Slots : removeAccount_session(s)
    \/ \E s \in Slots : renameAccount_call(s)
    \/ \E s \in Slots : renameAccount_write(s)

SpecConcurrent == InitConcurrent /\ [][NextConcurrent]_vars
====
